---- MODULE Spec2Model ----
(***************************************************************************)
(* The reading app (src/frontend/src/App.tsx: the Upload page, lines       *)
(* 269-513, and the Library page, lines 514-1362) as a state machine.      *)
(*                                                                         *)
(* React state is the VARIABLES.  A synchronous handler is one action: all *)
(* its setState calls are applied together.  An asynchronous handler is    *)
(* two actions: the part before its await, which puts a request in flight  *)
(* together with the values its closure captured, and the part after the   *)
(* await, which runs on the response with those captured values and with   *)
(* the current state wherever the code uses a functional update.          *)
(*                                                                         *)
(* The session runs in one language.  Every control is taken to be usable  *)
(* while the final results modal is shown.  The specifications are:        *)
(*   Spec        a Library session of answering questions on two texts     *)
(*   SpecBusy    the same on one text, with two requests in flight         *)
(*   SpecText    the Upload page, or a Library session of reading with the *)
(*               text mode buttons                                         *)
(*   SpecAudio   a Library session on one text with its audio controls     *)
(*   SpecLoad    a Library session from its mount, after an upload or not, *)
(*               of loading and reading texts, two requests in flight      *)
(*   SpecRender  calls of buildFragmentHtml                                *)
(***************************************************************************)
EXTENDS Integers, Sequences, FiniteSets, TLC

(***************************************************************************)
(* Bounds of the model.                                                    *)
(*   MaxParts     parts of the longer text                                 *)
(*   MaxQ         questions the gateway returns for a first part           *)
(*   MaxInflight  Library requests in flight at a time, of all kinds       *)
(*   MaxAnswers   answers scored or awaiting their result at a time        *)
(*   MaxSelects   text selections in a session                             *)
(*   MaxEdits     simplify and format results applied to an uploaded text  *)
(*   MaxLoops     animation frame callbacks requested at a time            *)
(*   ClipEnd      duration of an audio clip, in time units                 *)
(*   MaxLen       characters of a rendered text and of an answer snippet   *)
(***************************************************************************)
MaxParts == 2
MaxQ == 2
MaxInflight == 1
MaxAnswers == 2
MaxSelects == 2
MaxEdits == 2
MaxLoops == 2
ClipEnd == 6
MaxLen == 4

(***************************************************************************)
(* The Text Store behind getParts: two texts; text "A" has MaxParts parts, *)
(* text "B" has one.  A part name is its position ("Part i" is i), and the *)
(* text of part i of text t is the pair <<t, i>>.  The empty string of the *)
(* code is NoText / NoPart / NoFragment.                                   *)
(***************************************************************************)
Texts == {"A", "B"}
NoText == ""
NoPart == 0
NoFragment == <<>>
NoQuestion == <<>>
NoHighlight == [text |-> "", correct |-> FALSE]
NoClip == <<>>
NotRendered == [before |-> <<>>, cls |-> "none", match |-> <<>>, after |-> <<>>]

PartCount(t) == IF t = "A" THEN MaxParts ELSE 1

PartsOf(t) == [i \in 1..PartCount(t) |-> <<t, i>>]

Difficulties == {"standard", "easy"}

VARIABLES
  selectedText,      \* name of the selected text, NoText before any selection
  parts,             \* the loaded parts map: sequence of fragment texts
  selectedPart,      \* name of the active part, NoPart when none
  fragment,          \* text of the active fragment
  textMode,          \* "original" or "simple"
  simpleCache,       \* simplified texts by cache key
  questions,         \* the displayed question list
  qIndex,            \* index of the current question, from 0
  answer,            \* content of the answer box
  lastResult,        \* "idle", "correct", "incorrect" or "rateLimited"
  difficulty,        \* "standard" or "easy"
  loadingQuestions,  \* a generateQuestions request of the buttons is in flight
  scoreTracker,      \* [correct, incorrect, fragmentScores]
  showFinalResults,  \* the final results modal is shown (SessionComplete)
  questionCache,     \* question sets by fragment index
  allQuestionsLoaded,\* a batch generation has filled the cache
  batchGenerating,   \* a batch request is in flight
  getPartsReqs,      \* getParts requests in flight
  questionReqs,      \* generateQuestions requests in flight
  batchReqs,         \* generateQuestionsBatch requests in flight
  evalReqs,          \* evaluate requests in flight: the part and question of the closure
  feedback,          \* feedback text of the last evaluation, "" when none
  highlight,         \* answer highlight [text, correct], NoHighlight when null
  alerted,           \* the step just taken raised an alert() dialog
  loadingSimple,     \* a simplify request of the mode button is in flight
  simplifyReqs,      \* simplify requests of the Library in flight
  text,              \* Upload page: content of the text box
  busy,              \* Upload page: a request of the page is in flight
  message,           \* Upload page: the status message, "" when none
  uploadReqs,        \* Upload page: simplify and format requests in flight
  audioLoading,      \* a synthesizeAudio request is in flight
  audioError,        \* the audio error message, "" when none
  audioUrl,          \* the open clip (the text it reads), NoClip when null
  wordTimings,       \* word timings of the open clip
  currentWordIndex,  \* index of the highlighted word, -1 when none
  audioReqs,         \* synthesizeAudio requests in flight
  paused,            \* audioRef.current.paused
  currentTime,       \* audioRef.current.currentTime
  animationFrameRef, \* position in scheduled of the callback the ref names, 0 when null
  scheduled,         \* requested animation frame callbacks, in request order
  renderArgs,        \* buildFragmentHtml: [text, highlight, uppercase] of a call
  fragmentHtml,      \* buildFragmentHtml: what the call returned
  page,              \* the page that is mounted: "library" or "upload"
  justUploaded,      \* the upload success banner is shown
  inflightCap,       \* bookkeeping of the model: Library requests allowed in flight
  selects            \* bookkeeping of the model: text selections so far

vars == <<selectedText, parts, selectedPart, fragment, textMode, simpleCache,
          questions, qIndex, answer, lastResult, difficulty, loadingQuestions,
          scoreTracker, showFinalResults, questionCache, allQuestionsLoaded,
          batchGenerating, getPartsReqs, questionReqs, batchReqs, evalReqs,
          feedback, highlight, alerted, loadingSimple, simplifyReqs,
          text, busy, message, uploadReqs, page, justUploaded, inflightCap,
          audioLoading, audioError, audioUrl, wordTimings, currentWordIndex,
          audioReqs, paused, currentTime, animationFrameRef, scheduled,
          renderArgs, fragmentHtml,
          selects>>

\* the state of the text mode buttons, of the Upload page, and of the mounted
\* page with its banner
modeVars == <<loadingSimple, simplifyReqs>>
uploadVars == <<text, busy, message, uploadReqs>>
pageVars == <<page, justUploaded, inflightCap>>
renderVars == <<renderArgs, fragmentHtml>>
audioVars == <<audioLoading, audioError, audioUrl, wordTimings, currentWordIndex,
               audioReqs, paused, currentTime, animationFrameRef, scheduled>>

(***************************************************************************)
(* Helpers for JavaScript objects and arrays.                              *)
(***************************************************************************)
EmptyMap == [k \in {} |-> 0]

Keys(p) == 1..Len(p)

\* Object.keys(p).indexOf(part): position from 0, -1 when part is no key
IndexOf(p, part) == IF part \in Keys(p) THEN part - 1 ELSE -1

\* { ...m, [k]: v }
Put(m, k, v) == [x \in DOMAIN m \cup {k} |-> IF x = k THEN v ELSE m[x]]

\* requests of all kinds in flight
Pending ==
  Len(getPartsReqs) + Len(questionReqs) + Len(batchReqs) + Len(evalReqs)
  + Len(simplifyReqs) + Len(audioReqs)

RemoveAt(s, i) == [j \in 1..(Len(s) - 1) |-> IF j < i THEN s[j] ELSE s[j + 1]]

(***************************************************************************)
(* What the AI Gateway returns.  A question is a record of the fragment    *)
(* text and difficulty it was asked for, the call that produced it, and    *)
(* its position in the returned list.                                     *)
(***************************************************************************)
\* The number of questions the gateway returns for a fragment text: MaxQ for
\* a first part, one for any other, so that lists of both kinds occur.
NumQuestions(source) == IF source[2] = 1 THEN MaxQ ELSE 1

QuestionSet(source, mode, by) ==
  [k \in 1..NumQuestions(source) |->
     [frag |-> source, diff |-> mode, by |-> by, k |-> k]]

\* questions_by_fragment of a batch response: one list per fragment sent,
\* keyed by its index from 0.
BatchResult(fragmentsArray, mode) ==
  [i \in 0..(Len(fragmentsArray) - 1) |->
     QuestionSet(fragmentsArray[i + 1], mode, "batch")]

(***************************************************************************)
(* Derived values of the component.                                       *)
(***************************************************************************)
currentQuestion ==
  IF qIndex + 1 \in 1..Len(questions) THEN questions[qIndex + 1] ELSE NoQuestion

cacheKey ==
  IF selectedText # NoText /\ selectedPart # NoPart
  THEN <<selectedText, selectedPart>> ELSE <<>>

displayText ==
  IF textMode = "simple" /\ cacheKey # <<>> /\ cacheKey \in DOMAIN simpleCache
  THEN simpleCache[cacheKey]
  ELSE fragment

\* the Library page as it mounts
InitLibrary ==
  /\ selectedText = NoText
  /\ parts = <<>>
  /\ selectedPart = NoPart
  /\ fragment = NoFragment
  /\ textMode = "original"
  /\ simpleCache = EmptyMap
  /\ questions = <<>>
  /\ qIndex = 0
  /\ answer = ""
  /\ lastResult = "idle"
  /\ difficulty = "standard"
  /\ loadingQuestions = FALSE
  /\ scoreTracker = [correct |-> 0, incorrect |-> 0, fragmentScores |-> EmptyMap]
  /\ showFinalResults = FALSE
  /\ questionCache = EmptyMap
  /\ allQuestionsLoaded = FALSE
  /\ batchGenerating = FALSE
  /\ getPartsReqs = <<>>
  /\ questionReqs = <<>>
  /\ batchReqs = <<>>
  /\ evalReqs = <<>>
  /\ feedback = ""
  /\ highlight = NoHighlight
  /\ alerted = FALSE
  /\ loadingSimple = FALSE
  /\ simplifyReqs = <<>>
  /\ audioLoading = FALSE
  /\ audioError = ""
  /\ audioUrl = NoClip
  /\ wordTimings = <<>>
  /\ currentWordIndex = -1
  /\ audioReqs = <<>>
  /\ paused = TRUE
  /\ currentTime = 0
  /\ animationFrameRef = 0
  /\ scheduled = <<>>
  /\ justUploaded = FALSE

\* no call of buildFragmentHtml is followed
InitNoRender ==
  /\ renderArgs = [text |-> <<>>, highlight |-> [text |-> <<>>, correct |-> FALSE],
                   uppercase |-> FALSE]
  /\ fragmentHtml = NotRendered

\* the Upload page as it mounts
InitUpload ==
  /\ text = <<>>
  /\ busy = FALSE
  /\ message = ""
  /\ uploadReqs = <<>>

Init ==
  /\ InitLibrary
  /\ InitUpload
  /\ InitNoRender
  /\ page = "library"
  /\ inflightCap = MaxInflight
  /\ selects = 0

(***************************************************************************)
(* Selecting a text (the texts effect at mount or the text select), and    *)
(* the effect on selectedText that follows it: getParts is requested.      *)
(***************************************************************************)
SelectText(t) ==
  /\ page = "library"
  /\ t # selectedText
  /\ selects < MaxSelects
  /\ selects' = selects + 1
  /\ Pending < inflightCap
  /\ selectedText' = t
  /\ getPartsReqs' = Append(getPartsReqs, t)
  /\ UNCHANGED <<parts, selectedPart, fragment, textMode, simpleCache,
                 questions, qIndex, answer, lastResult, difficulty,
                 loadingQuestions, scoreTracker, showFinalResults,
                 questionCache, allQuestionsLoaded, batchGenerating,
                 questionReqs, batchReqs, evalReqs, feedback, highlight,
                 modeVars, uploadVars, pageVars, audioVars, renderVars>>
  /\ alerted' = FALSE

\* the texts effect at mount when localStorage names the text just uploaded:
\* it selects that text and shows the banner, and the effect on selectedText
\* and justUploaded requests getParts once for both changes
SelectUploaded(t) ==
  /\ page = "library"
  /\ selectedText = NoText
  /\ selects < MaxSelects
  /\ selects' = selects + 1
  /\ Pending < inflightCap
  /\ selectedText' = t
  /\ justUploaded' = TRUE
  /\ getPartsReqs' = Append(getPartsReqs, t)
  /\ UNCHANGED <<parts, selectedPart, fragment, textMode, simpleCache,
                 questions, qIndex, answer, lastResult, difficulty,
                 loadingQuestions, scoreTracker, showFinalResults,
                 questionCache, allQuestionsLoaded, batchGenerating,
                 questionReqs, batchReqs, evalReqs, feedback, highlight,
                 modeVars, uploadVars, page, inflightCap, audioVars, renderVars>>
  /\ alerted' = FALSE

\* the timer of the banner, 4 seconds after it was shown:
\* setJustUploaded(false), and the effect on selectedText, language and
\* justUploaded, which runs again and requests getParts
BannerExpires ==
  /\ justUploaded
  /\ justUploaded' = FALSE
  /\ IF selectedText = NoText
     THEN /\ parts' = <<>>
          /\ fragment' = NoFragment
          /\ questions' = <<>>
          /\ selectedPart' = NoPart
          /\ UNCHANGED getPartsReqs
     ELSE /\ Pending < inflightCap
          /\ getPartsReqs' = Append(getPartsReqs, selectedText)
          /\ UNCHANGED <<parts, fragment, questions, selectedPart>>
  /\ UNCHANGED <<selectedText, textMode, simpleCache, qIndex, answer,
                 lastResult, difficulty, loadingQuestions, scoreTracker,
                 showFinalResults, questionCache, allQuestionsLoaded,
                 batchGenerating, questionReqs, batchReqs, evalReqs, feedback,
                 highlight, selects, modeVars, uploadVars, page, inflightCap,
                 audioVars, renderVars>>
  /\ alerted' = FALSE

\* .then(p => ...) of the getParts call; an empty map p only replaces parts
GetPartsLoaded(p) ==
  /\ parts' = p
  /\ IF Len(p) > 0
     THEN /\ selectedPart' = 1
          /\ fragment' = p[1]
          /\ textMode' = "original"
          /\ questions' = <<>>
          /\ qIndex' = 0
          /\ answer' = ""
          /\ feedback' = ""
     ELSE UNCHANGED <<selectedPart, fragment, textMode, questions, qIndex, answer,
                      feedback>>

\* .catch(() => setParts({}))
GetPartsFailed ==
  /\ parts' = <<>>
  /\ UNCHANGED <<selectedPart, fragment, textMode, questions, qIndex, answer,
                 feedback>>

\* the response that also resets the score
GetPartsResponseResetsScore(i, ok) ==
  /\ i \in 1..Len(getPartsReqs)
  /\ getPartsReqs' = RemoveAt(getPartsReqs, i)
  /\ IF ok THEN GetPartsLoaded(PartsOf(getPartsReqs[i])) ELSE GetPartsFailed
  /\ scoreTracker' = [correct |-> 0, incorrect |-> 0, fragmentScores |-> EmptyMap]
  /\ UNCHANGED <<selectedText, simpleCache, lastResult, difficulty,
                 loadingQuestions, showFinalResults,
                 questionCache, allQuestionsLoaded, batchGenerating,
                 questionReqs, batchReqs, evalReqs,
                 selects, modeVars, uploadVars, pageVars, audioVars, renderVars>>
  /\ UNCHANGED highlight
  /\ alerted' = FALSE

GetPartsResponse(i, ok) ==
  /\ i \in 1..Len(getPartsReqs)
  /\ getPartsReqs' = RemoveAt(getPartsReqs, i)
  /\ IF ok THEN GetPartsLoaded(PartsOf(getPartsReqs[i])) ELSE GetPartsFailed
  /\ UNCHANGED <<selectedText, simpleCache, lastResult, difficulty,
                 loadingQuestions, scoreTracker, showFinalResults,
                 questionCache, allQuestionsLoaded, batchGenerating,
                 questionReqs, batchReqs, evalReqs,
                 selects, modeVars, uploadVars, pageVars, audioVars, renderVars>>
  /\ UNCHANGED highlight
  /\ alerted' = FALSE

(***************************************************************************)
(* handlePartChange: the state it sets.  Its callers add what they leave   *)
(* unchanged.                                                              *)
(***************************************************************************)
\* the cache read under the part name instead of the fragment index
CachedQuestionsByName(part) ==
  IF allQuestionsLoaded /\ part \in DOMAIN questionCache
  THEN questionCache[part]
  ELSE <<>>

\* the questions handlePartChange displays for part
CachedQuestions(part) ==
  LET fragmentIndex == IndexOf(parts, part)
  IN IF allQuestionsLoaded /\ fragmentIndex \in DOMAIN questionCache
     THEN questionCache[fragmentIndex]
     ELSE <<>>

\* the part change that keeps the question index
handlePartChangeKeepsIndex(part) ==
  /\ selectedPart' = part
  /\ fragment' = parts[part]
  /\ textMode' = "original"
  /\ lastResult' = "idle"
  /\ answer' = ""
  /\ showFinalResults' = FALSE
  /\ questions' = CachedQuestions(part)
  /\ qIndex' = qIndex
  /\ highlight' = NoHighlight
  /\ feedback' = ""

handlePartChange(part) ==
  /\ selectedPart' = part
  /\ fragment' = parts[part]
  /\ textMode' = "original"
  /\ lastResult' = "idle"
  /\ answer' = ""
  /\ showFinalResults' = FALSE
  /\ questions' = CachedQuestions(part)
  /\ qIndex' = 0
  /\ highlight' = NoHighlight
  /\ feedback' = ""

\* the part select: onChange fires for another option of the loaded parts
SelectPart(part) ==
  /\ part \in Keys(parts)
  /\ part # selectedPart
  /\ handlePartChange(part)
  /\ UNCHANGED <<selectedText, parts, simpleCache, difficulty, loadingQuestions,
                 scoreTracker, questionCache, allQuestionsLoaded,
                 batchGenerating, getPartsReqs, questionReqs, batchReqs, evalReqs,
                 selects, modeVars, uploadVars, pageVars, audioVars, renderVars>>
  /\ alerted' = FALSE

(***************************************************************************)
(* loadQuestions(mode) without overrideText: the difficulty buttons and    *)
(* "read again".                                                           *)
(***************************************************************************)
QuestionsSource ==
  IF textMode = "simple" /\ cacheKey # <<>> /\ cacheKey \in DOMAIN simpleCache
  THEN simpleCache[cacheKey]
  ELSE fragment

loadQuestions(mode) ==
  LET fragmentIndex == IndexOf(parts, selectedPart)
  IN IF allQuestionsLoaded /\ fragmentIndex \in DOMAIN questionCache
        /\ mode = difficulty
     THEN /\ questions' = questionCache[fragmentIndex]
          /\ qIndex' = 0
          /\ answer' = ""
          /\ lastResult' = "idle"
          /\ feedback' = ""
          /\ highlight' = NoHighlight
          /\ UNCHANGED <<loadingQuestions, questionReqs>>
     ELSE /\ QuestionsSource # NoFragment
          /\ Pending < inflightCap
          /\ loadingQuestions' = TRUE
          /\ questionReqs' = Append(questionReqs,
                 [source |-> QuestionsSource, mode |-> mode,
                  fragmentIndex |-> fragmentIndex, overrideText |-> FALSE])
          /\ UNCHANGED <<questions, qIndex, answer, lastResult, feedback,
                         highlight>>

\* a difficulty button: disabled={!displayText || loadingQuestions}
ClickDifficulty(mode) ==
  /\ displayText # NoFragment
  /\ ~loadingQuestions
  /\ loadQuestions(mode)
  /\ UNCHANGED <<selectedText, parts, selectedPart, fragment, textMode,
                 simpleCache, difficulty, scoreTracker, showFinalResults,
                 questionCache, allQuestionsLoaded, batchGenerating,
                 getPartsReqs, batchReqs, evalReqs,
                 selects, modeVars, uploadVars, pageVars, audioVars, renderVars>>
  /\ alerted' = FALSE

\* the "read again" button, disabled={!displayText || loadingQuestions}:
\* after the scroll it calls loadQuestions(difficulty), which is what the
\* button of the difficulty in force does
handleReadAgain == ClickDifficulty(difficulty)

\* the response of generateQuestions, or its failure
QuestionsResponse(i, ok) ==
  /\ i \in 1..Len(questionReqs)
  /\ questionReqs' = RemoveAt(questionReqs, i)
  /\ loadingQuestions' = FALSE
  /\ LET req == questionReqs[i]
         qs == QuestionSet(req.source, req.mode, "single")
     IN IF ok
        THEN /\ questions' = qs
             /\ difficulty' = req.mode
             /\ qIndex' = 0
             /\ answer' = ""
             /\ lastResult' = "idle"
             /\ feedback' = ""
             /\ highlight' = NoHighlight
             /\ questionCache' = IF ~req.overrideText
                                 THEN Put(questionCache, req.fragmentIndex, qs)
                                 ELSE questionCache
        ELSE UNCHANGED <<questions, difficulty, qIndex, answer, lastResult,
                         feedback, highlight, questionCache>>
  /\ UNCHANGED <<selectedText, parts, selectedPart, fragment, textMode,
                 simpleCache, scoreTracker, showFinalResults,
                 allQuestionsLoaded, batchGenerating, getPartsReqs,
                 batchReqs, evalReqs,
                 selects, modeVars, uploadVars, pageVars, audioVars, renderVars>>
  /\ alerted' = FALSE

(***************************************************************************)
(* handleBatchGenerateQuestions.                                           *)
(***************************************************************************)
handleBatchGenerateQuestions ==
  /\ selectedText # NoText
  /\ Len(parts) > 0
  /\ ~batchGenerating
  /\ Pending < inflightCap
  /\ batchGenerating' = TRUE
  /\ questionCache' = EmptyMap
  /\ allQuestionsLoaded' = FALSE
  /\ batchReqs' = Append(batchReqs,
         [fragmentsArray |-> parts, difficulty |-> difficulty,
          currentFragmentIndex |-> IndexOf(parts, selectedPart)])
  /\ UNCHANGED <<selectedText, parts, selectedPart, fragment, textMode,
                 simpleCache, questions, qIndex, answer, lastResult,
                 difficulty, loadingQuestions, scoreTracker, showFinalResults,
                 getPartsReqs, questionReqs, evalReqs,
                 selects, modeVars, uploadVars, pageVars, audioVars, renderVars>>
  /\ UNCHANGED <<feedback, highlight>>
  /\ alerted' = FALSE

BatchSucceeded(req, result) ==
  /\ questionCache' = result
  /\ allQuestionsLoaded' = TRUE
  /\ IF req.currentFragmentIndex >= 0
        /\ req.currentFragmentIndex \in DOMAIN result
     THEN /\ questions' = result[req.currentFragmentIndex]
          /\ qIndex' = 0
          /\ answer' = ""
          /\ lastResult' = "idle"
          /\ feedback' = ""
          /\ highlight' = NoHighlight
     ELSE UNCHANGED <<questions, qIndex, answer, lastResult, feedback, highlight>>
  /\ alerted' = FALSE

\* catch: console.error and alert(...)
BatchFailed ==
  /\ alerted' = TRUE
  /\ UNCHANGED <<questionCache, allQuestionsLoaded, questions, qIndex, answer,
                 lastResult, feedback, highlight>>

BatchResponse(ok) ==
  /\ Len(batchReqs) > 0
  /\ batchReqs' = Tail(batchReqs)
  /\ batchGenerating' = FALSE
  /\ LET req == Head(batchReqs)
     IN IF ok
        THEN BatchSucceeded(req, BatchResult(req.fragmentsArray, req.difficulty))
        ELSE BatchFailed
  /\ UNCHANGED <<selectedText, parts, selectedPart, fragment, textMode,
                 simpleCache, difficulty, loadingQuestions, scoreTracker,
                 showFinalResults, getPartsReqs, questionReqs, evalReqs,
                 selects, modeVars, uploadVars, pageVars, audioVars, renderVars>>

(***************************************************************************)
(* The answer box and handleEvaluate.                                      *)
(***************************************************************************)
\* the textarea: disabled={!currentQuestion}
TypeAnswer ==
  /\ currentQuestion # NoQuestion
  /\ answer = ""
  /\ answer' = "answer"
  /\ UNCHANGED <<selectedText, parts, selectedPart, fragment, textMode,
                 simpleCache, questions, qIndex, lastResult, difficulty,
                 loadingQuestions, scoreTracker, showFinalResults,
                 questionCache, allQuestionsLoaded, batchGenerating,
                 getPartsReqs, questionReqs, batchReqs, evalReqs,
                 selects, modeVars, uploadVars, pageVars, audioVars, renderVars>>
  /\ UNCHANGED <<feedback, highlight>>
  /\ alerted' = FALSE

Answered == scoreTracker.correct + scoreTracker.incorrect

handleEvaluate ==
  /\ answer # ""
  /\ currentQuestion # NoQuestion
  /\ Pending < inflightCap
  /\ Answered + Len(evalReqs) < MaxAnswers
  /\ evalReqs' = Append(evalReqs, [selectedPart |-> selectedPart,
                                   question |-> currentQuestion])
  /\ UNCHANGED <<selectedText, parts, selectedPart, fragment, textMode,
                 simpleCache, questions, qIndex, answer, lastResult,
                 difficulty, loadingQuestions, scoreTracker, showFinalResults,
                 questionCache, allQuestionsLoaded, batchGenerating,
                 getPartsReqs, questionReqs, batchReqs,
                 selects, modeVars, uploadVars, pageVars, audioVars, renderVars>>
  /\ UNCHANGED <<feedback, highlight>>
  /\ alerted' = FALSE

\* prev.fragmentScores[part]?.correct || 0
FragmentScore(fs, part) ==
  IF part \in DOMAIN fs THEN fs[part] ELSE [correct |-> 0, incorrect |-> 0]

\* the update without the spread of prev.fragmentScores
ScoreUpdateNoSpread(prev, part, correct) ==
  [correct |-> prev.correct + (IF correct THEN 1 ELSE 0),
   incorrect |-> prev.incorrect + (IF correct THEN 0 ELSE 1),
   fragmentScores |->
     Put(EmptyMap, part,
         [correct |-> FragmentScore(prev.fragmentScores, part).correct
                        + (IF correct THEN 1 ELSE 0),
          incorrect |-> FragmentScore(prev.fragmentScores, part).incorrect
                        + (IF correct THEN 0 ELSE 1)])]

\* the functional update of setScoreTracker
ScoreUpdate(prev, part, correct) ==
  [correct |-> prev.correct + (IF correct THEN 1 ELSE 0),
   incorrect |-> prev.incorrect + (IF correct THEN 0 ELSE 1),
   fragmentScores |->
     Put(prev.fragmentScores, part,
         [correct |-> FragmentScore(prev.fragmentScores, part).correct
                        + (IF correct THEN 1 ELSE 0),
          incorrect |-> FragmentScore(prev.fragmentScores, part).incorrect
                        + (IF correct THEN 0 ELSE 1)])]

\* res.correct_snippet ? { text: res.correct_snippet, correct: !!res.correct } : null
HighlightOf(res) ==
  IF res.correct_snippet # ""
  THEN [text |-> res.correct_snippet, correct |-> res.correct]
  ELSE NoHighlight

\* the result scored for the part that is active when the response arrives
EvaluateResultCurrentPart(req, res) ==
  /\ feedback' = res.feedback
  /\ highlight' = HighlightOf(res)
  /\ IF res.rate_limited
     THEN /\ lastResult' = "rateLimited"
          /\ UNCHANGED scoreTracker
     ELSE /\ scoreTracker' = ScoreUpdate(scoreTracker, selectedPart, res.correct)
          /\ lastResult' = IF res.correct THEN "correct" ELSE "incorrect"

\* the score updated before the rate_limited test
EvaluateResultScoresFirst(req, res) ==
  /\ feedback' = res.feedback
  /\ highlight' = HighlightOf(res)
  /\ scoreTracker' = ScoreUpdate(scoreTracker, req.selectedPart, res.correct)
  /\ lastResult' = IF res.rate_limited THEN "rateLimited"
                   ELSE IF res.correct THEN "correct" ELSE "incorrect"

\* the code after the await, on a response res
EvaluateResult(req, res) ==
  /\ feedback' = res.feedback
  /\ highlight' = HighlightOf(res)
  /\ IF res.rate_limited
     THEN /\ lastResult' = "rateLimited"
          /\ UNCHANGED scoreTracker
     ELSE /\ scoreTracker' = ScoreUpdate(scoreTracker, req.selectedPart, res.correct)
          /\ lastResult' = IF res.correct THEN "correct" ELSE "incorrect"

EvaluateResponse(i, ok, res) ==
  /\ i \in 1..Len(evalReqs)
  /\ evalReqs' = RemoveAt(evalReqs, i)
  /\ IF ok
     THEN EvaluateResult(evalReqs[i], res)
     ELSE UNCHANGED <<lastResult, scoreTracker, feedback, highlight>>
  /\ UNCHANGED <<selectedText, parts, selectedPart, fragment, textMode,
                 simpleCache, questions, qIndex, answer, difficulty,
                 loadingQuestions, showFinalResults, questionCache,
                 allQuestionsLoaded, batchGenerating, getPartsReqs,
                 questionReqs, batchReqs,
                 selects, modeVars, uploadVars, pageVars, audioVars, renderVars>>
  /\ alerted' = FALSE

\* the responses of evaluate: correct_snippet is "" when the gateway sends none
EvaluateResults ==
  [correct : BOOLEAN, rate_limited : BOOLEAN, correct_snippet : {"", "snippet"},
   feedback : {"feedback"}]

(***************************************************************************)
(* handleNextQuestion, handleAutoAdvance and the start-over button.        *)
(***************************************************************************)
handleNextQuestion ==
  /\ qIndex' = qIndex + 1
  /\ answer' = ""
  /\ lastResult' = "idle"
  /\ feedback' = ""
  /\ highlight' = NoHighlight
  /\ UNCHANGED <<selectedPart, fragment, textMode, showFinalResults, questions>>

\* isLastQuestion computed as qIndex >= questions.length
handleAutoAdvanceOffByOne ==
  /\ lastResult \in {"correct", "incorrect"}
  /\ LET isLastQuestion == qIndex >= Len(questions)
         currentPartIndex == IndexOf(parts, selectedPart)
         isLastFragment == currentPartIndex >= Len(parts) - 1
     IN IF ~isLastQuestion
        THEN handleNextQuestion
        ELSE IF ~isLastFragment
        THEN handlePartChange(currentPartIndex + 2)
        ELSE /\ showFinalResults' = TRUE
             /\ UNCHANGED <<selectedPart, fragment, textMode, lastResult,
                            answer, questions, qIndex, feedback, highlight>>
  /\ UNCHANGED <<selectedText, parts, simpleCache, difficulty, loadingQuestions,
                 scoreTracker, questionCache, allQuestionsLoaded,
                 batchGenerating, getPartsReqs, questionReqs, batchReqs, evalReqs,
                 selects, modeVars, uploadVars, pageVars, audioVars, renderVars>>
  /\ alerted' = FALSE

\* the next button is rendered while lastResult is correct or incorrect
handleAutoAdvance ==
  /\ lastResult \in {"correct", "incorrect"}
  /\ LET isLastQuestion == qIndex >= Len(questions) - 1
         currentPartIndex == IndexOf(parts, selectedPart)
         isLastFragment == currentPartIndex >= Len(parts) - 1
     IN IF ~isLastQuestion
        THEN handleNextQuestion
        ELSE IF ~isLastFragment
        THEN handlePartChange(currentPartIndex + 2)
        ELSE /\ showFinalResults' = TRUE
             /\ UNCHANGED <<selectedPart, fragment, textMode, lastResult,
                            answer, questions, qIndex, feedback, highlight>>
  /\ UNCHANGED <<selectedText, parts, simpleCache, difficulty, loadingQuestions,
                 scoreTracker, questionCache, allQuestionsLoaded,
                 batchGenerating, getPartsReqs, questionReqs, batchReqs, evalReqs,
                 selects, modeVars, uploadVars, pageVars, audioVars, renderVars>>
  /\ alerted' = FALSE

StartOver ==
  /\ showFinalResults
  /\ scoreTracker' = [correct |-> 0, incorrect |-> 0, fragmentScores |-> EmptyMap]
  /\ IF Len(parts) > 0
     THEN handlePartChange(1)
     ELSE /\ showFinalResults' = FALSE
          /\ UNCHANGED <<selectedPart, fragment, textMode, lastResult, answer,
                         questions, qIndex, feedback, highlight>>
  /\ UNCHANGED <<selectedText, parts, simpleCache, difficulty, loadingQuestions,
                 questionCache, allQuestionsLoaded, batchGenerating,
                 getPartsReqs, questionReqs, batchReqs, evalReqs,
                 selects, modeVars, uploadVars, pageVars, audioVars, renderVars>>
  /\ alerted' = FALSE

(***************************************************************************)
(* handleModeChange: the text mode buttons.                                *)
(***************************************************************************)
\* what simplify returns for a fragment text
Simplified(source) == <<source[1], source[2], "simple">>

\* loadQuestions(difficulty, overrideText) as handleModeChange calls it, not
\* awaited: the cache is not consulted, and the request goes out at once
loadQuestionsOverride(mode, overrideText, fragmentIndex) ==
  /\ loadingQuestions' = TRUE
  /\ questionReqs' = Append(questionReqs,
         [source |-> overrideText, mode |-> mode,
          fragmentIndex |-> fragmentIndex, overrideText |-> TRUE])

\* mode = 'simple' with no cache entry under the key: up to the await
SimplifyRequested ==
  IF selectedPart \in Keys(parts)
  THEN /\ Pending < inflightCap
       /\ loadingSimple' = TRUE
       /\ simplifyReqs' = Append(simplifyReqs,
              [key |-> cacheKey, source |-> parts[selectedPart],
               noQuestions |-> Len(questions) = 0, difficulty |-> difficulty,
               fragmentIndex |-> IndexOf(parts, selectedPart)])
       /\ UNCHANGED <<fragment, textMode, loadingQuestions, questionReqs>>
  ELSE UNCHANGED <<loadingSimple, simplifyReqs, fragment, textMode,
                   loadingQuestions, questionReqs>>

\* the branches of handleModeChange that end in setTextMode(mode)
ShowMode(mode, shown) ==
  /\ textMode' = mode
  /\ IF shown # NoFragment
     THEN /\ fragment' = shown
          /\ IF Len(questions) = 0
             THEN /\ Pending < inflightCap
                  /\ loadQuestionsOverride(difficulty, shown,
                                           IndexOf(parts, selectedPart))
             ELSE UNCHANGED <<loadingQuestions, questionReqs>>
     ELSE UNCHANGED <<fragment, loadingQuestions, questionReqs>>
  /\ UNCHANGED <<loadingSimple, simplifyReqs>>

\* the simple button is disabled={!fragment || loadingSimple}, the original
\* button disabled={!fragment}
handleModeChange(mode) ==
  /\ mode # textMode
  /\ fragment # NoFragment
  /\ mode = "simple" => ~loadingSimple
  /\ IF selectedPart = NoPart \/ selectedText = NoText
     THEN /\ textMode' = "original"
          /\ UNCHANGED <<fragment, loadingQuestions, questionReqs,
                         loadingSimple, simplifyReqs>>
     ELSE IF mode = "simple"
     THEN IF cacheKey \notin DOMAIN simpleCache
          THEN SimplifyRequested
          ELSE ShowMode("simple", simpleCache[cacheKey])
     ELSE ShowMode("original",
                   IF selectedPart \in Keys(parts) THEN parts[selectedPart]
                   ELSE NoFragment)
  /\ alerted' = FALSE
  /\ UNCHANGED <<selectedText, parts, selectedPart, simpleCache, questions,
                 qIndex, answer, lastResult, difficulty, scoreTracker,
                 showFinalResults, questionCache, allQuestionsLoaded,
                 batchGenerating, getPartsReqs, batchReqs, evalReqs, feedback,
                 highlight, selects, uploadVars, pageVars, audioVars, renderVars>>

\* the response that also removes the cache entries of other keys
SimplifySucceededOneEntry(req) ==
  /\ simpleCache' = Put(EmptyMap, req.key, Simplified(req.source))
  /\ fragment' = Simplified(req.source)
  /\ IF req.noQuestions
     THEN loadQuestionsOverride(req.difficulty, Simplified(req.source),
                                req.fragmentIndex)
     ELSE UNCHANGED <<loadingQuestions, questionReqs>>
  /\ textMode' = "simple"

\* after the await: the cache entry, the fragment, the questions if the
\* closure saw none, and setTextMode('simple')
SimplifySucceeded(req) ==
  /\ simpleCache' = Put(simpleCache, req.key, Simplified(req.source))
  /\ fragment' = Simplified(req.source)
  /\ IF req.noQuestions
     THEN loadQuestionsOverride(req.difficulty, Simplified(req.source),
                                req.fragmentIndex)
     ELSE UNCHANGED <<loadingQuestions, questionReqs>>
  /\ textMode' = "simple"

\* the catch that leaves the mode as it is
SimplifyFailedKeepsMode ==
  /\ textMode' = "simple"
  /\ UNCHANGED <<simpleCache, fragment, loadingQuestions, questionReqs>>

\* catch: console.error, setTextMode('original'), return
SimplifyFailed ==
  /\ textMode' = "original"
  /\ UNCHANGED <<simpleCache, fragment, loadingQuestions, questionReqs>>

SimplifyResponse(i, ok) ==
  /\ i \in 1..Len(simplifyReqs)
  /\ simplifyReqs' = RemoveAt(simplifyReqs, i)
  /\ loadingSimple' = FALSE
  /\ IF ok THEN SimplifySucceeded(simplifyReqs[i]) ELSE SimplifyFailed
  /\ alerted' = FALSE
  /\ UNCHANGED <<selectedText, parts, selectedPart, questions, qIndex, answer,
                 lastResult, difficulty, scoreTracker, showFinalResults,
                 questionCache, allQuestionsLoaded, batchGenerating,
                 getPartsReqs, batchReqs, evalReqs, feedback, highlight,
                 selects, uploadVars, pageVars, audioVars, renderVars>>

\* the state of the Library, which is not mounted
libraryVars ==
  <<selectedText, parts, selectedPart, fragment, textMode, simpleCache,
    questions, qIndex, answer, lastResult, difficulty, loadingQuestions,
    scoreTracker, showFinalResults, questionCache, allQuestionsLoaded,
    batchGenerating, getPartsReqs, questionReqs, batchReqs, evalReqs,
    feedback, highlight, alerted, selects>>

(***************************************************************************)
(* The Upload page: the text box, handleSimplify and handleFormat.  The    *)
(* content of the box is the list of what was done to it: "draft" for what *)
(* the user typed, then the level of each simplification and "format" for  *)
(* each formatting applied.                                                *)
(***************************************************************************)
UploadLevels == {"gentle", "deep"}


\* the textarea, which is not disabled while a request is in flight
TypeText(typed) ==
  /\ page = "upload"
  /\ typed # text
  /\ text' = typed
  /\ UNCHANGED <<busy, message, uploadReqs, libraryVars, modeVars, pageVars, audioVars, renderVars>>

\* both handlers up to the await; their buttons are
\* disabled={busy || !text.trim()}
UploadRequested(kind) ==
  /\ page = "upload"
  /\ ~busy
  /\ text # <<>>
  /\ Len(text) <= MaxEdits
  /\ busy' = TRUE
  /\ message' = ""
  /\ uploadReqs' = Append(uploadReqs, [kind |-> kind, text |-> text])
  /\ UNCHANGED <<text, libraryVars, modeVars, pageVars, audioVars, renderVars>>

handleSimplify(level) == UploadRequested(level)

handleFormat == UploadRequested("format")

\* catch: setMessage(t.uploadError)
UploadFailed ==
  /\ message' = "uploadError"
  /\ UNCHANGED text

\* the response of simplify or formatText, or its failure
UploadResponse(ok) ==
  /\ Len(uploadReqs) > 0
  /\ uploadReqs' = Tail(uploadReqs)
  /\ busy' = FALSE
  /\ IF ok
     THEN /\ text' = Append(Head(uploadReqs).text, Head(uploadReqs).kind)
          /\ UNCHANGED message
     ELSE UploadFailed
  /\ UNCHANGED <<libraryVars, modeVars, pageVars, audioVars, renderVars>>

(***************************************************************************)
(* buildFragmentHtml, in the branch taken while no word is highlighted by  *)
(* the audio.  A string is the sequence of its characters.  The returned   *)
(* HTML is the record of the text before the marker span, the class of the *)
(* span, the text inside it and the text after it; cls is "" when the      *)
(* output has no span.  The characters of the model need no HTML escaping  *)
(* and spell no sequence word.                                             *)
(***************************************************************************)
TextChars == {"a", "A", "."}

SnippetChars == {"a", ".", " "}

\* the characters of /[.,!?...]+$/
Punctuation == {".", ",", "!", "?"}

MinStripped == 3

Strings(chars) == UNION {[1..k -> chars] : k \in 0..MaxLen}

toLowerCase(s) == [i \in 1..Len(s) |-> IF s[i] = "A" THEN "a" ELSE s[i]]

toUpperCase(s) == [i \in 1..Len(s) |-> IF s[i] = "a" THEN "A" ELSE s[i]]

trim(s) ==
  LET inked == {i \in 1..Len(s) : s[i] # " "}
  IN IF inked = {} THEN <<>>
     ELSE SubSeq(s, CHOOSE i \in inked : \A j \in inked : i <= j,
                    CHOOSE i \in inked : \A j \in inked : i >= j)

\* s.replace(/[.,!?...]+$/, '')
stripTrailing(s) ==
  LET kept == {i \in 1..Len(s) : s[i] \notin Punctuation}
  IN IF kept = {} THEN <<>>
     ELSE SubSeq(s, 1, CHOOSE i \in kept : \A j \in kept : i >= j)

\* s.indexOf(sub): from 0, -1 when sub does not occur
indexOf(s, sub) ==
  LET hits == {i \in 0..(Len(s) - Len(sub)) : SubSeq(s, i + 1, i + Len(sub)) = sub}
  IN IF hits = {} THEN -1 ELSE CHOOSE i \in hits : \A j \in hits : i <= j

\* s.slice(from, to)
slice(s, from, to) == SubSeq(s, from + 1, IF to > Len(s) THEN Len(s) ELSE to)

\* the output with the span around length characters from index
Marked(working, index, length, correct) ==
  [before |-> slice(working, 0, index),
   cls |-> IF correct THEN "hl-correct" ELSE "hl-wrong",
   match |-> slice(working, index, index + length),
   after |-> slice(working, index + length, Len(working))]

Plain(working) == [before |-> working, cls |-> "", match |-> <<>>, after |-> <<>>]

buildFragmentHtml(content, meta, uppercase) ==
  IF content = <<>> THEN Plain(<<>>)
  ELSE
    LET working == IF uppercase THEN toUpperCase(content) ELSE content
        snippet == trim(IF uppercase THEN toUpperCase(meta.text)
                        ELSE meta.text)
        workingLower == toLowerCase(working)
        snippetLower == toLowerCase(snippet)
        first == indexOf(workingLower, snippetLower)
        stripped == stripTrailing(snippetLower)
        index == IF first = -1 /\ Len(stripped) >= MinStripped
                 THEN indexOf(workingLower, stripped)
                 ELSE first
    IN IF meta.text # <<>> /\ Len(snippet) > 0 /\ index # -1
       THEN Marked(working, index, Len(snippet), meta.correct)
       ELSE Plain(working)

\* the useMemo that renders the fragment
RenderFragment ==
  /\ fragmentHtml = NotRendered
  /\ fragmentHtml' = buildFragmentHtml(renderArgs.text, renderArgs.highlight,
                                       renderArgs.uppercase)
  /\ UNCHANGED <<renderArgs, libraryVars, modeVars, uploadVars, pageVars,
                 audioVars>>

(***************************************************************************)
(* Audio: handleAudio, the <audio> element of the fragment clip and the    *)
(* tracking of the spoken word.  Time is counted in units from 0 to        *)
(* ClipEnd.  A requested animation frame callback is the value of          *)
(* currentWordIndex its closure captured; an animation frame runs all the  *)
(* callbacks requested before it.                                          *)
(***************************************************************************)
\* what synthesizeAudio returns as words: none, or two words with silence
\* before, between and after them
Words == <<[start |-> 1, end |-> 2], [start |-> 4, end |-> 5]>>

TimingLists == {<<>>, Words}

AudioKinds == {"fragment", "question"}

\* the state of the session that the audio handlers leave alone
sessionVars ==
  <<selectedText, parts, selectedPart, fragment, textMode, simpleCache,
    questions, qIndex, answer, lastResult, difficulty, loadingQuestions,
    scoreTracker, showFinalResults, questionCache, allQuestionsLoaded,
    batchGenerating, getPartsReqs, questionReqs, batchReqs, evalReqs,
    feedback, highlight, selects, modeVars, uploadVars, pageVars, renderVars>>

\* the fragment button is rendered while audioUrl is null and is
\* disabled={!displayText || audioLoading}; the question button is
\* disabled={!currentQuestion}
handleAudio(kind) ==
  /\ IF kind = "fragment"
     THEN audioUrl = NoClip /\ displayText # NoFragment /\ ~audioLoading
     ELSE currentQuestion # NoQuestion
  /\ Pending < inflightCap
  /\ audioLoading' = TRUE
  /\ audioError' = ""
  /\ audioReqs' = Append(audioReqs,
         [kind |-> kind,
          target |-> IF kind = "fragment" THEN displayText ELSE currentQuestion])
  /\ alerted' = FALSE
  /\ UNCHANGED <<audioUrl, wordTimings, currentWordIndex, paused, currentTime,
                 animationFrameRef, scheduled, sessionVars>>

\* the response of synthesizeAudio, or its failure.  An animation frame
\* comes before the response: no callback of an earlier clip is pending.
AudioResponse(i, ok, words) ==
  /\ i \in 1..Len(audioReqs)
  /\ scheduled = <<>>
  /\ audioReqs' = RemoveAt(audioReqs, i)
  /\ audioLoading' = FALSE
  /\ IF ok
     THEN /\ UNCHANGED audioError
          /\ IF audioReqs[i].kind = "fragment"
             THEN /\ audioUrl' = audioReqs[i].target
                  /\ wordTimings' = words
                  /\ currentWordIndex' = -1
                  /\ paused' = TRUE
                  /\ currentTime' = 0
             ELSE UNCHANGED <<audioUrl, wordTimings, currentWordIndex, paused,
                              currentTime>>
     ELSE /\ audioError' = "storyAudioError"
          /\ UNCHANGED <<audioUrl, wordTimings, currentWordIndex, paused,
                         currentTime>>
  /\ alerted' = FALSE
  /\ UNCHANGED <<animationFrameRef, scheduled, sessionVars>>

\* wordTimings.findIndex(...) of trackAudioProgress, -1 when no word is found
FindIndex(timings, time) ==
  LET hits == {i \in 1..Len(timings) :
                 /\ time >= timings[i].start
                 /\ (i = Len(timings) \/ time < timings[i + 1].start)}
  IN IF hits = {} THEN -1
     ELSE (CHOOSE i \in hits : \A j \in hits : i <= j) - 1

\* trackAudioProgress called by a handler of the current render, at the
\* given time and paused flag of the element
trackAudioProgress(time, isPaused) ==
  IF wordTimings = <<>>
  THEN UNCHANGED <<currentWordIndex, scheduled, animationFrameRef>>
  ELSE /\ currentWordIndex' = FindIndex(wordTimings, time)
       /\ IF ~isPaused
          THEN /\ Len(scheduled) < MaxLoops
               /\ scheduled' = Append(scheduled, currentWordIndex)
               /\ animationFrameRef' = Len(scheduled) + 1
          ELSE UNCHANGED <<scheduled, animationFrameRef>>

\* if (animationFrameRef.current) { cancelAnimationFrame(...); ... = null }
CancelFrame ==
  /\ scheduled' = IF animationFrameRef > 0
                  THEN RemoveAt(scheduled, animationFrameRef)
                  ELSE scheduled
  /\ animationFrameRef' = 0

\* playback starts (autoPlay or the play control); from the end it restarts
onPlay ==
  /\ audioUrl # NoClip
  /\ paused
  /\ paused' = FALSE
  /\ currentTime' = IF currentTime = ClipEnd THEN 0 ELSE currentTime
  /\ trackAudioProgress(IF currentTime = ClipEnd THEN 0 ELSE currentTime, FALSE)
  /\ alerted' = FALSE
  /\ UNCHANGED <<audioLoading, audioError, audioUrl, wordTimings, audioReqs,
                 sessionVars>>

onPause ==
  /\ audioUrl # NoClip
  /\ ~paused
  /\ currentTime < ClipEnd
  /\ paused' = TRUE
  /\ CancelFrame
  /\ alerted' = FALSE
  /\ UNCHANGED <<audioLoading, audioError, audioUrl, wordTimings,
                 currentWordIndex, audioReqs, currentTime, sessionVars>>

\* playback reaches the end: the element pauses, then onEnded runs
onEnded ==
  /\ audioUrl # NoClip
  /\ ~paused
  /\ currentTime = ClipEnd
  /\ paused' = TRUE
  /\ currentWordIndex' = -1
  /\ CancelFrame
  /\ alerted' = FALSE
  /\ UNCHANGED <<audioLoading, audioError, audioUrl, wordTimings, audioReqs,
                 currentTime, sessionVars>>

\* the user seeks to another time
onSeeked(time) ==
  /\ audioUrl # NoClip
  /\ time # currentTime
  /\ currentTime' = time
  /\ IF ~paused
     THEN trackAudioProgress(time, FALSE)
     ELSE UNCHANGED <<currentWordIndex, scheduled, animationFrameRef>>
  /\ alerted' = FALSE
  /\ UNCHANGED <<audioLoading, audioError, audioUrl, wordTimings, audioReqs,
                 paused, sessionVars>>

\* playback advances by one time unit
TimePasses ==
  /\ audioUrl # NoClip
  /\ ~paused
  /\ currentTime < ClipEnd
  /\ currentTime' = currentTime + 1
  /\ alerted' = FALSE
  /\ UNCHANGED <<audioLoading, audioError, audioUrl, wordTimings,
                 currentWordIndex, audioReqs, paused, animationFrameRef,
                 scheduled, sessionVars>>

\* an animation frame: every requested callback runs trackAudioProgress with
\* the currentWordIndex of its closure, and requests itself again while the
\* element plays
AnimationFrame ==
  /\ scheduled # <<>>
  /\ IF audioUrl = NoClip \/ wordTimings = <<>>
     THEN /\ scheduled' = <<>>
          /\ UNCHANGED <<currentWordIndex, animationFrameRef>>
     ELSE /\ currentWordIndex' =
               IF \E k \in 1..Len(scheduled) :
                    scheduled[k] # FindIndex(wordTimings, currentTime)
               THEN FindIndex(wordTimings, currentTime)
               ELSE currentWordIndex
          /\ IF ~paused
             THEN /\ animationFrameRef' = Len(scheduled)
                  /\ UNCHANGED scheduled
             ELSE /\ scheduled' = <<>>
                  /\ UNCHANGED animationFrameRef
  /\ alerted' = FALSE
  /\ UNCHANGED <<audioLoading, audioError, audioUrl, wordTimings, audioReqs,
                 paused, currentTime, sessionVars>>

\* the close button, rendered while audioUrl is set
stopAudio ==
  /\ audioUrl # NoClip
  /\ paused' = TRUE
  /\ currentTime' = 0
  /\ CancelFrame
  /\ audioUrl' = NoClip
  /\ wordTimings' = <<>>
  /\ currentWordIndex' = -1
  /\ alerted' = FALSE
  /\ UNCHANGED <<audioLoading, audioError, audioReqs, sessionVars>>

Next ==
  \/ \E t \in Texts : SelectText(t)
  \/ \E i \in 1..Len(getPartsReqs), ok \in BOOLEAN : GetPartsResponse(i, ok)
  \/ \E part \in 1..MaxParts : SelectPart(part)
  \/ \E mode \in Difficulties : ClickDifficulty(mode)
  \/ handleReadAgain
  \/ \E i \in 1..Len(questionReqs), ok \in BOOLEAN : QuestionsResponse(i, ok)
  \/ handleBatchGenerateQuestions
  \/ \E ok \in BOOLEAN : BatchResponse(ok)
  \/ TypeAnswer
  \/ handleEvaluate
  \/ \E i \in 1..Len(evalReqs), ok \in BOOLEAN, res \in EvaluateResults :
       EvaluateResponse(i, ok, res)
  \/ handleAutoAdvance
  \/ StartOver

Spec == Init /\ [][Next]_vars

(***************************************************************************)
(* The texts that simplify and format produce: the Upload page, or a       *)
(* Library session of reading, with the text mode buttons and without the  *)
(* answer box and the batch button.                                        *)
(***************************************************************************)
InitText ==
  /\ InitLibrary
  /\ InitUpload
  /\ InitNoRender
  /\ page \in {"library", "upload"}
  /\ inflightCap = MaxInflight
  /\ selects = 0

NextText ==
  \/ \E t \in Texts : SelectText(t)
  \/ \E i \in 1..Len(getPartsReqs), ok \in BOOLEAN : GetPartsResponse(i, ok)
  \/ \E part \in 1..MaxParts : SelectPart(part)
  \/ \E mode \in Difficulties : ClickDifficulty(mode)
  \/ \E i \in 1..Len(questionReqs), ok \in BOOLEAN : QuestionsResponse(i, ok)
  \/ \E mode \in {"original", "simple"} : handleModeChange(mode)
  \/ \E i \in 1..Len(simplifyReqs), ok \in BOOLEAN : SimplifyResponse(i, ok)
  \/ \E typed \in {<<>>, <<"draft">>} : TypeText(typed)
  \/ \E level \in UploadLevels : handleSimplify(level)
  \/ handleFormat
  \/ \E ok \in BOOLEAN : UploadResponse(ok)

SpecText == InitText /\ [][NextText]_vars

(***************************************************************************)
(* A Library session on one text in which two requests can be in flight.   *)
(***************************************************************************)
InitBusy ==
  /\ InitLibrary
  /\ InitUpload
  /\ InitNoRender
  /\ page = "library"
  /\ inflightCap = MaxInflight + 1
  /\ selects = MaxSelects - 1

SpecBusy == InitBusy /\ [][Next]_vars

(***************************************************************************)
(* A Library session on one text with its audio controls.                  *)
(***************************************************************************)
InitAudio ==
  /\ InitLibrary
  /\ InitUpload
  /\ InitNoRender
  /\ page = "library"
  /\ inflightCap = MaxInflight
  /\ selects = MaxSelects - 1

NextAudio ==
  \/ \E t \in Texts : SelectText(t)
  \/ \E i \in 1..Len(getPartsReqs), ok \in BOOLEAN : GetPartsResponse(i, ok)
  \/ \E part \in 1..MaxParts : SelectPart(part)
  \/ \E mode \in Difficulties : ClickDifficulty(mode)
  \/ \E i \in 1..Len(questionReqs), ok \in BOOLEAN : QuestionsResponse(i, ok)
  \/ \E kind \in AudioKinds : handleAudio(kind)
  \/ \E i \in 1..Len(audioReqs), ok \in BOOLEAN, words \in TimingLists :
       AudioResponse(i, ok, words)
  \/ onPlay
  \/ onPause
  \/ onEnded
  \/ \E time \in 0..ClipEnd : onSeeked(time)
  \/ TimePasses
  \/ AnimationFrame
  \/ stopAudio

SpecAudio == InitAudio /\ [][NextAudio]_vars

(***************************************************************************)
(* A Library session from its mount, after an upload or not, in which two  *)
(* requests can be in flight: loading the parts of the selected text,      *)
(* reading its parts and generating their questions.                       *)
(***************************************************************************)
InitLoad ==
  /\ InitLibrary
  /\ InitUpload
  /\ InitNoRender
  /\ page = "library"
  /\ inflightCap = MaxInflight + 1
  /\ selects = 0

NextLoad ==
  \/ \E t \in Texts : SelectUploaded(t)
  \/ \E t \in Texts : SelectText(t)
  \/ BannerExpires
  \/ \E i \in 1..Len(getPartsReqs), ok \in BOOLEAN : GetPartsResponse(i, ok)
  \/ \E part \in 1..MaxParts : SelectPart(part)
  \/ \E mode \in Difficulties : ClickDifficulty(mode)
  \/ \E i \in 1..Len(questionReqs), ok \in BOOLEAN : QuestionsResponse(i, ok)
  \/ TypeAnswer

SpecLoad == InitLoad /\ [][NextLoad]_vars

(***************************************************************************)
(* Calls of buildFragmentHtml on short texts and snippets.                 *)
(***************************************************************************)
InitRender ==
  /\ InitLibrary
  /\ InitUpload
  /\ page = "library"
  /\ inflightCap = MaxInflight
  /\ selects = 0
  /\ renderArgs \in [text : Strings(TextChars),
                      highlight : [text : Strings(SnippetChars), correct : BOOLEAN],
                      uppercase : BOOLEAN]
  /\ fragmentHtml = NotRendered

NextRender == RenderFragment

SpecRender == InitRender /\ [][NextRender]_vars

(***************************************************************************)
(* Properties.                                                             *)
(***************************************************************************)
RECURSIVE SumCorrect(_, _)
SumCorrect(fs, S) ==
  IF S = {} THEN 0
  ELSE LET p == CHOOSE x \in S : TRUE
       IN fs[p].correct + SumCorrect(fs, S \ {p})

RECURSIVE SumIncorrect(_, _)
SumIncorrect(fs, S) ==
  IF S = {} THEN 0
  ELSE LET p == CHOOSE x \in S : TRUE
       IN fs[p].incorrect + SumIncorrect(fs, S \ {p})

\* C1: in every reachable state the overall correct counter is the sum of the
\* per-fragment correct counters over all entries of fragmentScores, and the
\* overall incorrect counter is the sum of the per-fragment incorrect counters.
C1_TotalsEqualSums ==
  /\ scoreTracker.correct
       = SumCorrect(scoreTracker.fragmentScores, DOMAIN scoreTracker.fragmentScores)
  /\ scoreTracker.incorrect
       = SumIncorrect(scoreTracker.fragmentScores, DOMAIN scoreTracker.fragmentScores)

\* two answers were scored, for two different parts, one right and one wrong
C1_Witness ==
  /\ scoreTracker.correct = 1
  /\ scoreTracker.incorrect = 1
  /\ Cardinality(DOMAIN scoreTracker.fragmentScores) = 2

\* what a scored response must do to the counters of ScoreTracker st for part
ScoredOnce(st, stNew, part, correct) ==
  LET c == IF correct THEN 1 ELSE 0
      w == IF correct THEN 0 ELSE 1
  IN /\ stNew.correct = st.correct + c
     /\ stNew.incorrect = st.incorrect + w
     /\ part \in DOMAIN stNew.fragmentScores
     /\ stNew.fragmentScores[part].correct
          = FragmentScore(st.fragmentScores, part).correct + c
     /\ stNew.fragmentScores[part].incorrect
          = FragmentScore(st.fragmentScores, part).incorrect + w

\* C2: a response of evaluate that is not rate-limited and has correct = true
\* adds exactly 1 to the overall correct counter and to the correct counter of
\* the part that was active when the answer was submitted, and leaves both
\* incorrect counters as they were; with correct = false the same holds with
\* correct and incorrect swapped.
C2_ScoredForSubmittedPart ==
  [][\A i \in 1..MaxInflight, res \in EvaluateResults :
       (EvaluateResponse(i, TRUE, res) /\ ~res.rate_limited)
         => ScoredOnce(scoreTracker, scoreTracker', evalReqs[i].selectedPart,
                       res.correct)]_vars

\* a correct result was scored for a part the user had left, by a part
\* selection, while the request was in flight
C2_Witness ==
  /\ selects = 1
  /\ parts = PartsOf(selectedText)
  /\ lastResult = "correct"
  /\ selectedPart \notin DOMAIN scoreTracker.fragmentScores
  /\ \E p \in DOMAIN scoreTracker.fragmentScores :
       scoreTracker.fragmentScores[p].correct = 1

\* C3: a response of evaluate with rate_limited = true leaves the ScoreTracker
\* (both totals and every per-fragment entry) as it was, whatever its correct
\* field says.
C3_RateLimitedNotScored ==
  [][\A i \in 1..MaxInflight, res \in EvaluateResults :
       (EvaluateResponse(i, TRUE, res) /\ res.rate_limited)
         => scoreTracker' = scoreTracker]_vars

\* a rate-limited result arrived after an answer had been scored
C3_Witness ==
  /\ lastResult = "rateLimited"
  /\ Answered = 1
  /\ evalReqs = <<>>

\* C4: handleAutoAdvance does one of three things: with a question after the
\* current one in the list, the question index grows by 1 and the part stays;
\* otherwise, with a part after the current one, that next part becomes
\* active with question index 0; otherwise the final results are shown and
\* part, question index and score stay.
C4_AdvanceThreeWays ==
  [][handleAutoAdvance =>
       LET moreQuestions == qIndex < Len(questions) - 1
           moreParts == IndexOf(parts, selectedPart) < Len(parts) - 1
       IN IF moreQuestions
          THEN /\ qIndex' = qIndex + 1
               /\ selectedPart' = selectedPart
               /\ showFinalResults' = showFinalResults
               /\ scoreTracker' = scoreTracker
          ELSE IF moreParts
          THEN /\ selectedPart' = selectedPart + 1
               /\ fragment' = parts[selectedPart + 1]
               /\ qIndex' = 0
               /\ ~showFinalResults'
               /\ scoreTracker' = scoreTracker
          ELSE /\ showFinalResults'
               /\ selectedPart' = selectedPart
               /\ qIndex' = qIndex
               /\ scoreTracker' = scoreTracker]_vars

\* the final results were entered from the last question of the last part
C4_Witness ==
  /\ showFinalResults
  /\ lastResult \in {"correct", "incorrect"}
  /\ Len(parts) = MaxParts
  /\ selectedPart = MaxParts
  /\ questions # <<>>
  /\ qIndex = Len(questions) - 1
  /\ Answered = MaxAnswers

\* C5: after start over the overall counters are 0, there are no per-fragment
\* entries, the active part is the first part of the loaded text, the
\* question index is 0 and the final results are no longer shown.
C5_StartOverResets ==
  [][StartOver =>
       /\ scoreTracker' = [correct |-> 0, incorrect |-> 0,
                           fragmentScores |-> EmptyMap]
       /\ Len(parts) > 0
       /\ selectedPart' = 1
       /\ fragment' = parts[1]
       /\ qIndex' = 0
       /\ ~showFinalResults']_vars

\* C6: selecting a different text clears the cached question sets: when the
\* parts of the new text load, the first part is active with an empty question
\* list, and a part selection made while the loaded parts are those of the
\* selected text displays no question that was generated for another text.
C6_TextChangeClearsCache ==
  [][/\ \A i \in 1..MaxInflight :
          (GetPartsResponse(i, TRUE) /\ Len(parts') > 0)
            => (selectedPart' = 1 /\ questions' = <<>>)
     /\ \A part \in 1..MaxParts :
          (SelectPart(part) /\ parts = PartsOf(selectedText))
            => \A k \in DOMAIN questions' : questions'[k].frag[1] = selectedText
    ]_vars

\* every question of the list qs was generated under difficulty d
UnderDifficulty(qs, d) == \A k \in DOMAIN qs : qs[k].diff = d

\* C7: selecting a part whose fragment index has a question set in the cache
\* that was generated under the current difficulty, by loadQuestions or by a
\* batch, displays that set with question index 0 and puts no generateQuestions
\* request in flight; with no set in the cache the list is empty.
C7_CachedSetReused ==
  [][\A part \in 1..MaxParts :
       SelectPart(part) =>
         LET fragmentIndex == IndexOf(parts, part)
         IN IF fragmentIndex \in DOMAIN questionCache
            THEN UnderDifficulty(questionCache[fragmentIndex], difficulty)
                   => /\ questions' = questionCache[fragmentIndex]
                      /\ qIndex' = 0
                      /\ questionReqs' = questionReqs
            ELSE questions' = <<>>]_vars

\* C8: question sets generated under a previous difficulty are not displayed
\* any more: whenever a part selection or a cache hit of loadQuestions sets
\* the question list, every question in it was generated under the
\* difficulty now in force.
C8_DifficultyChangeInvalidates ==
  [][((\E part \in 1..MaxParts : SelectPart(part))
        \/ (\E mode \in Difficulties :
              ClickDifficulty(mode) /\ questionReqs' = questionReqs))
       => UnderDifficulty(questions', difficulty')]_vars

\* C9: when a batch generation succeeds the question cache becomes exactly
\* its result, every entry being one the batch produced, and the
\* all-questions-loaded flag is set; and a part selection made while that flag
\* is set displays the cache entry of the part's fragment index (nothing when
\* the cache has none) and puts no generateQuestions request in flight.
C9_BatchFillsCache ==
  [][/\ BatchResponse(TRUE)
          => /\ questionCache'
                  = BatchResult(Head(batchReqs).fragmentsArray,
                                Head(batchReqs).difficulty)
             /\ \A i \in DOMAIN questionCache' :
                  \A k \in DOMAIN questionCache'[i] :
                    questionCache'[i][k].by = "batch"
             /\ allQuestionsLoaded'
     /\ \A part \in 1..MaxParts :
          (SelectPart(part) /\ allQuestionsLoaded)
            => /\ questions'
                    = IF part - 1 \in DOMAIN questionCache
                      THEN questionCache[part - 1] ELSE <<>>
               /\ qIndex' = 0
               /\ questionReqs' = questionReqs
    ]_vars

\* after a batch, the second part was selected and shows its batch questions
C9_Witness ==
  /\ allQuestionsLoaded
  /\ ~batchGenerating
  /\ selectedPart = 2
  /\ 1 \in DOMAIN questionCache
  /\ questions = questionCache[1]
  /\ questions # <<>>
  /\ questions[1].by = "batch"
  /\ 0 \in DOMAIN questionCache
  /\ questionCache[0][1].by = "single"

\* C10: the ScoreTracker, the question cache and the all-questions-loaded
\* flag are written only by the step that handles a successful response (and
\* by the start-over reset): neither issuing a generateQuestions,
\* generateQuestionsBatch or evaluate request nor its failure changes them.
C10_WritesOnlyOnSuccess ==
  [][(\/ questionCache' # questionCache
      \/ allQuestionsLoaded' # allQuestionsLoaded
      \/ scoreTracker' # scoreTracker)
       => \/ \E i \in 1..MaxInflight : QuestionsResponse(i, TRUE)
          \/ BatchResponse(TRUE)
          \/ \E i \in 1..MaxInflight, res \in EvaluateResults :
               EvaluateResponse(i, TRUE, res)
          \/ StartOver]_vars

\* an original part text of the Text Store
IsOriginal(f) == \E t \in Texts : \E i \in 1..PartCount(t) : f = PartsOf(t)[i]

\* C11 -- A failed simplify or format request leaves the text as it was and
\* clears the busy flag: on the Upload page the failure step does not change
\* the text box and busy is false after it; in the Library the failure step
\* leaves the displayed text as it was, which is the original text of the
\* active part, the text mode is "original" and loadingSimple is false.
C11_FailureLeavesText ==
  [][/\ UploadResponse(FALSE)
          => /\ text' = text
             /\ ~busy'
     /\ \A i \in 1..Len(simplifyReqs) :
          SimplifyResponse(i, FALSE)
            => /\ textMode' = "original"
               /\ displayText' = displayText
               /\ IsOriginal(displayText')
               /\ selectedPart \in Keys(parts) => displayText' = parts[selectedPart]
               /\ ~loadingSimple']_vars

\* a simplification of the Upload page succeeded and a later request failed:
\* the box still holds the simplified text
C11_Witness ==
  /\ page = "upload"
  /\ message = "uploadError"
  /\ Len(text) > 1
  /\ ~busy

\* C12 -- Once a simplify request has succeeded for a key, its cache entry
\* stays as it is through every step (mode switches and part changes
\* included), and pressing the simple button while the key of the active
\* part has an entry issues no simplify request and displays the entry.
C12_SimplifiedCached ==
  [][/\ \A k \in DOMAIN simpleCache :
          k \in DOMAIN simpleCache' /\ simpleCache'[k] = simpleCache[k]
     /\ (handleModeChange("simple") /\ cacheKey \in DOMAIN simpleCache)
          => /\ simplifyReqs' = simplifyReqs
             /\ textMode' = "simple"
             /\ displayText' = simpleCache[cacheKey]]_vars

\* both parts of text "A" have been simplified, and the first is displayed
\* simplified again with no request in flight
C12_Witness ==
  /\ textMode = "simple"
  /\ selectedPart = 1
  /\ DOMAIN simpleCache = {<<"A", 1>>, <<"A", 2>>}
  /\ displayText = simpleCache[<<"A", 1>>]
  /\ simplifyReqs = <<>>

\* C13 -- For each AI action at most one request is in flight in any
\* reachable state: simplify and format of the Upload page, simplify of the
\* Library, generate questions, batch generation, evaluate, synthesize audio.
C13_OneRequestPerAction ==
  /\ Len(uploadReqs) <= 1
  /\ Len(simplifyReqs) <= 1
  /\ Len(questionReqs) <= 1
  /\ Len(batchReqs) <= 1
  /\ Len(evalReqs) <= 1
  /\ Len(audioReqs) <= 1

\* what the user is shown of a failure: an alert, the audio error message or
\* the error message of the Upload page
ErrorSurfaced == alerted \/ audioError # "" \/ message = "uploadError"

\* C14 -- Every failed AI Gateway call leaves a user-visible error message
\* or error state set by the handler that issued it.
C14_FailureSurfaced ==
  [][(\/ \E i \in 1..Len(questionReqs) : QuestionsResponse(i, FALSE)
      \/ BatchResponse(FALSE)
      \/ \E i \in 1..Len(evalReqs), res \in EvaluateResults :
           EvaluateResponse(i, FALSE, res)
      \/ \E i \in 1..Len(simplifyReqs) : SimplifyResponse(i, FALSE)
      \/ UploadResponse(FALSE)
      \/ \E i \in 1..Len(audioReqs), words \in TimingLists :
           AudioResponse(i, FALSE, words))
       => ErrorSurfaced']_vars

\* C15 -- After a rate-limited evaluation result lastResult is
\* "rateLimited", no answer highlight is set (even if the response carries a
\* correct_snippet), and the advance control, offered while lastResult is
\* correct or incorrect, is not offered.
C15_RateLimitedUnstyled ==
  [][\A i \in 1..Len(evalReqs), res \in EvaluateResults :
       (EvaluateResponse(i, TRUE, res) /\ res.rate_limited)
         => /\ lastResult' = "rateLimited"
            /\ highlight' = NoHighlight]_vars

\* C16 -- The final results are entered only by advancing after a correct or
\* incorrect evaluation of the last question of the last part of the selected
\* text, and the advance control is offered only in a state that has a
\* current question.
C16_CompleteOnlyAfterLast ==
  [][/\ (showFinalResults' /\ ~showFinalResults)
          => /\ handleAutoAdvance
             /\ Len(questions) > 0
             /\ qIndex = Len(questions) - 1
             /\ parts = PartsOf(selectedText)
             /\ selectedPart = Len(parts)
     /\ lastResult' \in {"correct", "incorrect"}
          => currentQuestion' # NoQuestion]_vars

\* C17 -- The tracking loop is cancelled when playback pauses, ends or the
\* clip is closed: after a pause, an end or a close no animation frame
\* callback remains requested.
C17_LoopCancelled ==
  [][(onPause \/ onEnded \/ stopAudio) => scheduled' = <<>>]_vars

\* the index of the word whose interval [start, end] contains the time
FindIndexContaining(timings, time) ==
  LET hits == {i \in 1..Len(timings) :
                 time >= timings[i].start /\ time <= timings[i].end}
  IN IF hits = {} THEN -1
     ELSE (CHOOSE i \in hits : \A j \in hits : i <= j) - 1

\* C18 -- On each tracking tick with non-empty word timings (a call of
\* trackAudioProgress by an animation frame, by onPlay or by onSeeked during
\* playback), the current word index is the index of the word whose interval
\* [start, end] contains the current playback time, and -1 when the time lies
\* in no word's interval.
C18_CurrentWordContainsTime ==
  [][(/\ audioUrl # NoClip
      /\ wordTimings # <<>>
      /\ \/ AnimationFrame
         \/ onPlay
         \/ ~paused /\ \E time \in 0..ClipEnd : onSeeked(time))
       => currentWordIndex' = FindIndexContaining(wordTimings, currentTime')]_vars

\* C19 -- Answer highlighting: if the snippet occurs in the displayed text
\* case-insensitively, exactly its first occurrence is inside the marker; if
\* it occurs only after its trailing punctuation is stripped, exactly the
\* first occurrence of the stripped snippet is inside the marker; if it does
\* not occur, the output has no marker.
C19_AnswerHighlight ==
  fragmentHtml # NotRendered /\ renderArgs.text # <<>>
    => LET working == IF renderArgs.uppercase THEN toUpperCase(renderArgs.text)
                      ELSE renderArgs.text
           snippet == toLowerCase(trim(renderArgs.highlight.text))
           stripped == stripTrailing(snippet)
           whole == indexOf(toLowerCase(working), snippet)
           bare == indexOf(toLowerCase(working), stripped)
       IN IF snippet # <<>> /\ whole # -1
          THEN fragmentHtml = Marked(working, whole, Len(snippet),
                                     renderArgs.highlight.correct)
          ELSE IF stripped # <<>> /\ bare # -1
          THEN fragmentHtml = Marked(working, bare, Len(stripped),
                                     renderArgs.highlight.correct)
          ELSE fragmentHtml = Plain(working)

\* C20 -- The score tracker is changed only by a non-rate-limited
\* evaluation result and by the start-over reset: every other step leaves it
\* as it is.
C20_ScoreFrame ==
  [][scoreTracker' # scoreTracker
       => \/ \E i \in 1..Len(evalReqs), res \in EvaluateResults :
               EvaluateResponse(i, TRUE, res) /\ ~res.rate_limited
          \/ StartOver]_vars

\* an answer was scored, and the score stands after the text was changed and
\* a later result was rate-limited
C20_Witness ==
  /\ Answered = 1
  /\ selects = MaxSelects
  /\ parts = PartsOf(selectedText)
  /\ lastResult = "rateLimited"

\* C21 -- Question sets are regenerated on demand: whenever the displayed text
\* is non-empty, a press of "read again" puts a generateQuestions request for
\* the displayed text in flight, before and after a batch generation has
\* filled the cache, and its successful response replaces the displayed
\* question list with the returned questions.
C21_ReadAgainRegenerates ==
  [][/\ handleReadAgain
          => /\ Len(questionReqs') = Len(questionReqs) + 1
             /\ questionReqs'[Len(questionReqs')].source = displayText
     /\ \A i \in 1..Len(questionReqs) :
          QuestionsResponse(i, TRUE)
            => questions' = QuestionSet(questionReqs[i].source,
                                        questionReqs[i].mode, "single")]_vars

\* every question of the list qs was generated from part number part of text t
GeneratedFor(qs, t, part) ==
  \A k \in DOMAIN qs : qs[k].frag[1] = t /\ qs[k].frag[2] = part

\* C22 -- A generateQuestions or batch response installs only questions of
\* the fragment that is active when it arrives: whenever the step of a
\* successful response changes the displayed question list, every question of
\* the new list was generated from the selected part of the selected text.
C22_QuestionsOfActiveFragment ==
  [][(\/ \E i \in 1..Len(questionReqs) : QuestionsResponse(i, TRUE)
      \/ BatchResponse(TRUE))
       => (questions' # questions
             => GeneratedFor(questions', selectedText', selectedPart'))]_vars

\* C23 -- Once the parts of the selected text are loaded, the displayed text
\* is the original text of the selected part or the simplified text of that
\* same part, also when a simplify response arrives after the user has
\* selected another part.
C23_DisplayedTextOfPart ==
  (/\ getPartsReqs = <<>>
   /\ parts = PartsOf(selectedText)
   /\ selectedPart \in Keys(parts))
    => displayText \in {parts[selectedPart], Simplified(parts[selectedPart])}

\* C24 -- When a text is selected while a getParts request of an earlier
\* selection is in flight, then once every response has been delivered, in
\* whatever order, the loaded parts, the active part and the fragment are
\* those of the selected text: the step of the last successful response
\* leaves the parts of the selected text loaded and its first part active.
C24_LastSelectionWins ==
  [][\A i \in 1..Len(getPartsReqs) :
       (GetPartsResponse(i, TRUE) /\ getPartsReqs' = <<>>)
         => /\ parts' = PartsOf(selectedText')
            /\ selectedPart' \in Keys(parts')
            /\ fragment' = parts'[selectedPart']]_vars

\* C25 -- An evaluate response changes feedback, highlight and lastResult only
\* if the question it was issued for is still the current question of the
\* still-active part: a response that arrives after the user advanced or
\* changed part leaves all three as they are.
C25_StaleEvaluationIgnored ==
  [][\A i \in 1..Len(evalReqs), res \in EvaluateResults :
       (/\ EvaluateResponse(i, TRUE, res)
        /\ \/ evalReqs[i].question # currentQuestion
           \/ evalReqs[i].selectedPart # selectedPart)
         => /\ feedback' = feedback
            /\ highlight' = highlight
            /\ lastResult' = lastResult]_vars

\* C26 -- Each presented question is scored at most once: the result of an
\* answer submitted for the current question of the active part, arriving
\* while that question already has a correct or incorrect result, leaves the
\* ScoreTracker as it is.
C26_ScoredOncePerQuestion ==
  [][\A i \in 1..Len(evalReqs), res \in EvaluateResults :
       (/\ EvaluateResponse(i, TRUE, res)
        /\ lastResult \in {"correct", "incorrect"}
        /\ evalReqs[i].question = currentQuestion
        /\ evalReqs[i].selectedPart = selectedPart)
         => scoreTracker' = scoreTracker]_vars

\* C27 -- The expiry of the banner timer changes only the banner flag: its
\* step puts no request in flight and leaves the loaded parts, the selected
\* part, the fragment, the text mode, the question list, the question index,
\* the answer and the feedback as they were.
C27_BannerExpiryOnlyFlag ==
  [][BannerExpires
       => /\ ~justUploaded'
          /\ UNCHANGED <<getPartsReqs, questionReqs, batchReqs, evalReqs,
                         simplifyReqs, audioReqs>>
          /\ UNCHANGED <<parts, selectedPart, fragment, textMode, questions,
                         qIndex, answer, feedback>>]_vars

\* C28 -- Whenever the question list is non-empty the question index is a
\* position of the list, 0 <= qIndex < questions.length, so that a current
\* question exists.
C28_IndexInRange ==
  questions # <<>>
    => /\ 0 <= qIndex /\ qIndex < Len(questions)
       /\ currentQuestion # NoQuestion

\* after a text change and a batch generation, an advance has reached the
\* last question of a list of several questions
C28_Witness ==
  /\ selects = MaxSelects
  /\ getPartsReqs = <<>>
  /\ parts = PartsOf(selectedText)
  /\ allQuestionsLoaded
  /\ qIndex > 0
  /\ qIndex = Len(questions) - 1
  /\ lastResult = "idle"

\* C29 -- Whenever word-level audio highlighting is active (a clip is open
\* with word timings and a current word index >= 0), the displayed text is
\* the text the clip was synthesized from.
C29_HighlightOnClipText ==
  (audioUrl # NoClip /\ wordTimings # <<>> /\ currentWordIndex >= 0)
    => displayText = audioUrl

\* C30 -- In every reachable state with a non-empty selected part, the
\* selected part is a key of the loaded parts map and the fragment is the
\* text of that part or its simplification; after a failed or empty getParts
\* no part of the previous text stays active.
C30_ActivePartLoaded ==
  selectedPart # NoPart
    => /\ selectedPart \in Keys(parts)
       /\ fragment \in {parts[selectedPart], Simplified(parts[selectedPart])}

====
